---- MODULE Spec2Model ----
(***************************************************************************)
(* Request instrumentation middleware, metrics registry and task routes of *)
(* src/server.js, modelled as callbacks of a single-threaded event loop:   *)
(* every action is one run-to-completion turn (a middleware + synchronous  *)
(* handler part, a promise continuation, or a 'finish' listener).          *)
(*                                                                         *)
(* Units: Date.now() is kept in integer milliseconds and process.cpuUsage  *)
(* in integer microseconds.  observe(duration / 1000) and                  *)
(* inc((user + system) / 1000000) are divisions by a constant; the model   *)
(* stores the numerator, the value in seconds being numerator / 1000       *)
(* (resp. / 1000000).                                                      *)
(***************************************************************************)
EXTENDS Integers, Sequences, FiniteSets, Bags, TLC

\* ---------------------------------------------------------------- bounds
MaxReq == 2
MaxTick == 1

Reqs == 1..MaxReq

\* ---------------------------------------------------------- environment
\* The requests a client can send: method, path and kind of body.
ReqKinds ==
  { [method |-> "GET",  path |-> "/",          body |-> "none"],
    [method |-> "GET",  path |-> "/health",    body |-> "none"],
    [method |-> "GET",  path |-> "/metrics",   body |-> "none"],
    [method |-> "GET",  path |-> "/api/tasks", body |-> "none"],
    [method |-> "POST", path |-> "/api/tasks", body |-> "json"],
    [method |-> "POST", path |-> "/api/tasks", body |-> "malformed"],
    [method |-> "GET",  path |-> "/nope",      body |-> "none"] }

NoReq == [method |-> "", path |-> "", body |-> "none"]

\* Messages of the errors the task store can raise.
FailMsgs == {"cast failed", "buffering timed out"}

\* process.memoryUsage() samples.
MemSamples ==
  { [rss |-> 3, heapTotal |-> 2, heapUsed |-> 1, external |-> 1],
    [rss |-> 4, heapTotal |-> 2, heapUsed |-> 2, external |-> 1] }

VARIABLES
  nreq,        \* number of requests that have arrived (ids 1..nreq)
  req,         \* req[r]: method, path, body of request r
  pc,          \* pc[r]: where the handling of request r stands
  closure,     \* closure[r]: start, path, startCpuUsage captured by the middleware
  startTime,   \* startTime[r]: startTime captured by the /api/tasks handlers
  statusCode,  \* res.statusCode of request r
  resBody,     \* body handed to res.json / res.end
  destroyed,   \* the client closed the connection of request r
  thrown,      \* thrown[r]: the error raised while handling r, if any
  meas,        \* meas[r]: the instrument calls made by r's 'finish' listener
  register,    \* the metrics registry: one field per instrument
  log,         \* records written by logger
  now,         \* Date.now()
  cpu,         \* process.cpuUsage(): user + system
  crashed,     \* the process died of an uncaught exception / rejection
  lastRender,  \* the latest output of register.metrics()
  quiet        \* no request turn has run since lastRender was produced

vars == << nreq, req, pc, closure, startTime, statusCode, resBody, destroyed,
           thrown, meas, register, log, now, cpu, crashed, lastRender, quiet >>

NoClosure == [start |-> 0, path |-> "", startCpuUsage |-> 0]
NoRender == {}
NoError == [by |-> "none", message |-> ""]

\* ------------------------------------------------------------- registry
\* A labelled series is created on its first use (prom-client labels()).
SeriesAdd(series, key, amount) ==
  IF key \in DOMAIN series
    THEN [series EXCEPT ![key] = @ + amount]
    ELSE series @@ (key :> amount)

\* Histogram series keep the number of observations and their sum.
SeriesObserve(series, key, value) ==
  IF key \in DOMAIN series
    THEN [series EXCEPT ![key] = [count |-> @.count + 1, sum |-> @.sum + value]]
    ELSE series @@ (key :> [count |-> 1, sum |-> value])

EmptySeries == << >>

RegisterInit ==
  [ httpRequestDurationMicroseconds |-> EmptySeries,
    httpRequestCounter              |-> EmptySeries,
    memoryUsageGauge                |-> EmptySeries,
    cpuUsageCounter                 |-> 0,
    activeConnectionsGauge          |-> 0,
    mongoDbOperationsCounter        |-> EmptySeries,
    defaultMetrics                  |-> 0 ]


\* --------------------------------------------------------------- logger
\* logger.info / logger.error write one record.  The log is kept as the bag
\* of the records written (the order of the lines is not modelled).
LogInfo(l, rec) == l (+) SetToBag({[severity |-> "info"] @@ rec})
LogError(l, rec) == l (+) SetToBag({[severity |-> "error"] @@ rec})

\* ----------------------------------------------------------- middleware
\* RouteLabel without the special case of the root path.
RouteLabelRaw(p) == p

\* const path = req.path === '/' ? 'root' : req.path;
RouteLabel(p) == IF p = "/" THEN "root" ELSE p

\* Outcome with the boundary on the wrong side: a 400 counted as success.
OutcomeOffByOne(code) == IF code <= 400 THEN "success" ELSE "error"

\* const status = res.statusCode < 400 ? 'success' : 'error';
Outcome(code) == IF code < 400 THEN "success" ELSE "error"

\* Capture with start, path and startCpuUsage held in module-level
\* variables that every request shares.
CaptureShared(cl, r, t, p, c) ==
  [q \in DOMAIN cl |-> [start |-> t, path |-> RouteLabel(p), startCpuUsage |-> c]]

\* What the middleware keeps in its closure for request r.
Capture(cl, r, t, p, c) ==
  [cl EXCEPT ![r] = [start |-> t, path |-> RouteLabel(p), startCpuUsage |-> c]]

\* StartRecord without activeConnectionsGauge.inc().
StartRecordNoInc(reg, mem) ==
  [reg EXCEPT
     !.memoryUsageGauge = ("rss" :> mem.rss) @@ ("heapTotal" :> mem.heapTotal)
                          @@ ("heapUsed" :> mem.heapUsed)
                          @@ ("external" :> mem.external)]

\* The start phase's writes to the registry: the active-connections gauge
\* and the four memory gauges.
StartRecord(reg, mem) ==
  [reg EXCEPT
     !.activeConnectionsGauge = @ + 1,
     !.memoryUsageGauge = ("rss" :> mem.rss) @@ ("heapTotal" :> mem.heapTotal)
                          @@ ("heapUsed" :> mem.heapUsed)
                          @@ ("external" :> mem.external)]

\* .labels(req.method, path, res.statusCode, status)
Labels(r) ==
  << req[r].method, closure[r].path, statusCode[r], Outcome(statusCode[r]) >>

\* FinishOps with the counter's labels() call given one label too few.
FinishOpsShortLabels(r) ==
  LET duration == now - closure[r].start
      cpuUsage == cpu - closure[r].startCpuUsage
  IN << [call |-> "observe", labels |-> Labels(r), value |-> duration],
        [call |-> "inc",     labels |-> SubSeq(Labels(r), 1, 3), value |-> 1],
        [call |-> "cpu",     labels |-> << >>,     value |-> cpuUsage],
        [call |-> "dec",     labels |-> << >>,     value |-> 1],
        [call |-> "log",     labels |-> << >>,     value |-> duration] >>

\* The calls the 'finish' listener makes, in order.
FinishOps(r) ==
  LET duration == now - closure[r].start
      cpuUsage == cpu - closure[r].startCpuUsage
  IN << [call |-> "observe", labels |-> Labels(r), value |-> duration],
        [call |-> "inc",     labels |-> Labels(r), value |-> 1],
        [call |-> "cpu",     labels |-> << >>,     value |-> cpuUsage],
        [call |-> "dec",     labels |-> << >>,     value |-> 1],
        [call |-> "log",     labels |-> << >>,     value |-> duration] >>

\* The effect of one of those calls on the registry.
ApplyOp(reg, op) ==
  CASE op.call = "observe" ->
         [reg EXCEPT !.httpRequestDurationMicroseconds =
                        SeriesObserve(@, op.labels, op.value)]
    [] op.call = "inc" ->
         [reg EXCEPT !.httpRequestCounter = SeriesAdd(@, op.labels, op.value)]
    [] op.call = "cpu" ->
         [reg EXCEPT !.cpuUsageCounter = @ + op.value]
    [] op.call = "dec" ->
         [reg EXCEPT !.activeConnectionsGauge = @ - op.value]
    [] OTHER -> reg

RECURSIVE ApplyOps(_, _)
ApplyOps(reg, ops) ==
  IF ops = << >> THEN reg ELSE ApplyOps(ApplyOp(reg, Head(ops)), Tail(ops))

\* The record logger.info receives at the end of the 'finish' listener.
RequestLog(r, duration) ==
  [ message |-> << req[r].method, req[r].path >>,
    requestMethod |-> req[r].method,
    requestUrl |-> req[r].path,
    status |-> statusCode[r],
    latency |-> duration ]

\* The log after the calls in ops.
LogOps(l, r, ops) ==
  IF \E i \in DOMAIN ops : ops[i].call = "log"
    THEN LogInfo(l, RequestLog(r, now - closure[r].start))
    ELSE l


\* --------------------------------------------------------------- routes
\* The route express dispatches a request to; "none" has no handler and
\* gets the framework's 404.
Route(k) ==
  CASE k.method = "GET"  /\ k.path = "/"          -> "root"
    [] k.method = "GET"  /\ k.path = "/health"    -> "health"
    [] k.method = "GET"  /\ k.path = "/metrics"   -> "metrics"
    [] k.method = "GET"  /\ k.path = "/api/tasks" -> "find"
    [] k.method = "POST" /\ k.path = "/api/tasks" -> "insert"
    [] OTHER -> "none"

\* The operation label of the /api/tasks handler serving request r.
Operation(r) == IF req[r].method = "POST" THEN "insert" ELSE "find"

\* res.end() emits 'finish' later unless the socket is already destroyed,
\* in which case the write is discarded and 'finish' is never emitted.
AfterEnd(r) == IF destroyed[r] THEN "dropped" ELSE "ended"

\* mongoDbOperationsCounter.labels(op, status).inc()
MongoInc(reg, op, status) ==
  [reg EXCEPT !.mongoDbOperationsCounter = SeriesAdd(@, << op, status >>, 1)]

\* The text register.metrics() produces: one line per series.
Render(reg) ==
  { << "http_request_duration_seconds_count", k,
       reg.httpRequestDurationMicroseconds[k].count >> :
       k \in DOMAIN reg.httpRequestDurationMicroseconds }
  \cup
  { << "http_request_duration_seconds_sum", k,
       reg.httpRequestDurationMicroseconds[k].sum >> :
       k \in DOMAIN reg.httpRequestDurationMicroseconds }
  \cup
  { << "http_requests_total", k, reg.httpRequestCounter[k] >> :
       k \in DOMAIN reg.httpRequestCounter }
  \cup
  { << "nodejs_memory_usage_bytes", << k >>, reg.memoryUsageGauge[k] >> :
       k \in DOMAIN reg.memoryUsageGauge }
  \cup
  { << "mongodb_operations_total", k, reg.mongoDbOperationsCounter[k] >> :
       k \in DOMAIN reg.mongoDbOperationsCounter }
  \cup
  { << "nodejs_cpu_usage_seconds_total", << >>, reg.cpuUsageCounter >>,
    << "nodejs_active_connections", << >>, reg.activeConnectionsGauge >>,
    << "process_cpu_seconds_total", << >>, reg.defaultMetrics >> }

\* CollectDefault that also adds the sampled CPU time to the server's own
\* nodejs_cpu_usage_seconds_total counter.
CollectDefaultIntoCounter(reg) ==
  [reg EXCEPT !.defaultMetrics = cpu, !.cpuUsageCounter = @ + cpu + 1]

\* The default metrics registered by collectDefaultMetrics({ register })
\* are sampled from the process when the registry is rendered.
CollectDefault(reg) == [reg EXCEPT !.defaultMetrics = cpu]

\* ----------------------------------------------------------------- Init
Init ==
  /\ nreq = 0
  /\ req = [r \in Reqs |-> NoReq]
  /\ pc = [r \in Reqs |-> "idle"]
  /\ closure = [r \in Reqs |-> NoClosure]
  /\ startTime = [r \in Reqs |-> 0]
  /\ statusCode = [r \in Reqs |-> 200]
  /\ resBody = [r \in Reqs |-> << >>]
  /\ destroyed = [r \in Reqs |-> FALSE]
  /\ thrown = [r \in Reqs |-> NoError]
  /\ meas = [r \in Reqs |-> << >>]
  /\ register = RegisterInit
  /\ log = EmptyBag
  /\ now = 0
  /\ cpu = 0
  /\ crashed = FALSE
  /\ lastRender = NoRender
  /\ quiet = FALSE

\* -------------------------------------------------------------- actions
\* A request arrives: the middleware's start phase, next(), and the
\* synchronous part of the route handler run in one turn.
Start(k, mem) ==
  LET r == nreq + 1
      route == Route(k)
      started == StartRecord(register, mem)
  IN /\ ~crashed
     /\ nreq < MaxReq
     /\ nreq' = r
     /\ req' = [req EXCEPT ![r] = k]
     /\ closure' = Capture(closure, r, now, k.path, cpu)
     /\ register' = IF route = "find"
                      THEN MongoInc(started, "find", "pending")
                      ELSE started
     /\ startTime' = IF route = "find" THEN [startTime EXCEPT ![r] = now]
                                       ELSE startTime
     /\ statusCode' = IF route = "none" THEN [statusCode EXCEPT ![r] = 404]
                                        ELSE statusCode
     /\ resBody' = [resBody EXCEPT ![r] =
                      CASE route = "root"   -> << "message", "Welcome" >>
                        [] route = "health" -> << "status", "UP" >>
                        [] route = "none"   -> << "Cannot", k.method, k.path >>
                        [] OTHER -> @]
     /\ pc' = [pc EXCEPT ![r] =
                 CASE route = "metrics" -> "awaitRender"
                   [] route = "find"    -> "awaitStore"
                   [] route = "insert"  -> "parseBody"
                   [] OTHER -> "ended"]
     /\ quiet' = FALSE
     /\ UNCHANGED << destroyed, thrown, meas, log, now, cpu, crashed, lastRender >>

\* express.json() has read the body of a POST /api/tasks: a body that does
\* not parse (or a connection closed while reading) is answered 400 by the
\* framework; otherwise the handler runs up to `await task.save()`.
ParseBody(r) ==
  /\ ~crashed
  /\ pc[r] = "parseBody"
  /\ IF destroyed[r] \/ req[r].body = "malformed"
       THEN /\ statusCode' = [statusCode EXCEPT ![r] = 400]
            /\ resBody' = [resBody EXCEPT ![r] = << "Bad Request" >>]
            /\ pc' = [pc EXCEPT ![r] = AfterEnd(r)]
            /\ UNCHANGED << register, startTime >>
       ELSE /\ startTime' = [startTime EXCEPT ![r] = now]
            /\ register' = MongoInc(register, "insert", "pending")
            /\ pc' = [pc EXCEPT ![r] = "awaitStore"]
            /\ UNCHANGED << statusCode, resBody >>
  /\ quiet' = FALSE
  /\ UNCHANGED << nreq, req, closure, destroyed, thrown, meas, log, now, cpu,
                  crashed, lastRender >>

\* Task.find() / task.save() resolved.
StoreOk(r) ==
  LET op == Operation(r)
  IN /\ ~crashed
     /\ pc[r] = "awaitStore"
     /\ register' = MongoInc(register, op, "success")
     /\ log' = LogInfo(log, [ message |-> << "MongoDB", op, "operation completed" >>,
                              operation |-> op,
                              duration |-> now - startTime[r] ])
     /\ statusCode' = [statusCode EXCEPT ![r] = IF op = "insert" THEN 201 ELSE 200]
     /\ resBody' = [resBody EXCEPT ![r] = << "tasks" >>]
     /\ pc' = [pc EXCEPT ![r] = AfterEnd(r)]
     /\ quiet' = FALSE
     /\ UNCHANGED << nreq, req, closure, startTime, destroyed, thrown, meas, now,
                     cpu, crashed, lastRender >>

\* CatchStore that answers without status(500).
CatchStoreNoStatus(r, msg) ==
  LET op == Operation(r)
  IN /\ register' = MongoInc(register, op, "error")
     /\ log' = LogError(log, [ message |-> << "Error", op >>,
                               operation |-> op,
                               error |-> msg,
                               duration |-> now - startTime[r] ])
     /\ statusCode' = statusCode
     /\ resBody' = [resBody EXCEPT ![r] = << "error", "Failed", op >>]
     /\ pc' = [pc EXCEPT ![r] = AfterEnd(r)]

\* The body of the handlers' catch block.
CatchStore(r, msg) ==
  LET op == Operation(r)
  IN /\ register' = MongoInc(register, op, "error")
     /\ log' = LogError(log, [ message |-> << "Error", op >>,
                               operation |-> op,
                               error |-> msg,
                               duration |-> now - startTime[r] ])
     /\ statusCode' = [statusCode EXCEPT ![r] = 500]
     /\ resBody' = [resBody EXCEPT ![r] = << "error", "Failed", op >>]
     /\ pc' = [pc EXCEPT ![r] = AfterEnd(r)]

\* Task.find() / task.save() rejected with an error whose message is msg.
StoreFail(r, msg) ==
  /\ ~crashed
  /\ pc[r] = "awaitStore"
  /\ thrown' = [thrown EXCEPT ![r] = [by |-> "store", message |-> msg]]
  /\ CatchStore(r, msg)
  /\ quiet' = FALSE
  /\ UNCHANGED << nreq, req, closure, startTime, destroyed, meas, now, cpu,
                  crashed, lastRender >>

\* register.metrics() resolved: res.end(text).
RenderDone(r) ==
  LET collected == CollectDefault(register)
  IN /\ ~crashed
     /\ pc[r] = "awaitRender"
     /\ register' = collected
     /\ resBody' = [resBody EXCEPT ![r] = Render(collected)]
     /\ lastRender' = Render(collected)
     /\ quiet' = TRUE
     /\ pc' = [pc EXCEPT ![r] = AfterEnd(r)]
     /\ UNCHANGED << nreq, req, closure, startTime, statusCode, destroyed,
                     thrown, meas, log, now, cpu, crashed >>

\* The client closes the connection while the handler is waiting.
Abort(r) ==
  /\ ~crashed
  /\ pc[r] \in {"parseBody", "awaitStore", "awaitRender"}
  /\ ~destroyed[r]
  /\ destroyed' = [destroyed EXCEPT ![r] = TRUE]
  /\ UNCHANGED << nreq, req, pc, closure, startTime, statusCode, resBody,
                  thrown, meas, register, log, now, cpu, crashed, lastRender,
                  quiet >>

\* Finish that leaves the completion pending, so that it runs again.
FinishRearmed(r) ==
  LET ops == FinishOps(r)
  IN /\ ~crashed
     /\ pc[r] = "ended"
     /\ register' = ApplyOps(register, ops)
     /\ log' = LogOps(log, r, ops)
     /\ meas' = [meas EXCEPT ![r] = ops]
     /\ pc' = pc
     /\ quiet' = FALSE
     /\ UNCHANGED << nreq, req, closure, startTime, statusCode, resBody,
                     destroyed, thrown, now, cpu, crashed, lastRender >>

\* The response has been flushed: the 'finish' listener runs.
Finish(r) ==
  LET ops == FinishOps(r)
  IN /\ ~crashed
     /\ pc[r] = "ended"
     /\ register' = ApplyOps(register, ops)
     /\ log' = LogOps(log, r, ops)
     /\ meas' = [meas EXCEPT ![r] = ops]
     /\ pc' = [pc EXCEPT ![r] = "finished"]
     /\ quiet' = FALSE
     /\ UNCHANGED << nreq, req, closure, startTime, statusCode, resBody,
                     destroyed, thrown, now, cpu, crashed, lastRender >>

\* Time passes; the process may have used CPU meanwhile.
Tick(used) ==
  /\ ~crashed
  /\ now < MaxTick
  /\ now' = now + 1
  /\ cpu' = cpu + used
  /\ UNCHANGED << nreq, req, pc, closure, startTime, statusCode, resBody,
                  destroyed, thrown, meas, register, log, crashed, lastRender,
                  quiet >>

Next ==
  \/ \E k \in ReqKinds, mem \in MemSamples : Start(k, mem)
  \/ \E r \in Reqs : ParseBody(r)
  \/ \E r \in Reqs : StoreOk(r)
  \/ \E r \in Reqs, msg \in FailMsgs : StoreFail(r, msg)
  \/ \E r \in Reqs : RenderDone(r)
  \/ \E r \in Reqs : Abort(r)
  \/ \E r \in Reqs : Finish(r)
  \/ \E used \in {0, 1} : Tick(used)

Spec == Init /\ [][Next]_vars

\* ------------------------------------------------------ injected faults
\* The code has no try/catch around its telemetry calls and none in the
\* /metrics handler.  The actions below add the case in which one of those
\* calls throws; they are part of SpecFault only.

\* A telemetry call of the start phase throws: `at` is "inc" when
\* activeConnectionsGauge.inc() throws and "memory" when the first
\* memoryUsageGauge set throws.  The exception leaves the middleware before
\* res.on('finish', ...) and before next(); the framework catches it and
\* answers 500 through its default error handler.
StartThrows(k, at) ==
  LET r == nreq + 1
  IN /\ ~crashed
     /\ nreq < MaxReq
     /\ nreq' = r
     /\ req' = [req EXCEPT ![r] = k]
     /\ closure' = Capture(closure, r, now, k.path, 0)
     /\ register' = IF at = "inc" THEN register
                    ELSE [register EXCEPT !.activeConnectionsGauge = @ + 1]
     /\ thrown' = [thrown EXCEPT ![r] = [by |-> "telemetry-start", message |-> at]]
     /\ statusCode' = [statusCode EXCEPT ![r] = 500]
     /\ resBody' = [resBody EXCEPT ![r] = << "Internal Server Error" >>]
     /\ pc' = [pc EXCEPT ![r] = "unheard"]
     /\ quiet' = FALSE
     /\ UNCHANGED << startTime, destroyed, meas, log, now, cpu, crashed,
                     lastRender >>

\* The i-th call of the 'finish' listener throws: the calls before it have
\* taken effect, the exception is uncaught and ends the process.
FinishThrows(r, i) ==
  LET done == SubSeq(FinishOps(r), 1, i - 1)
  IN /\ ~crashed
     /\ pc[r] = "ended"
     /\ register' = ApplyOps(register, done)
     /\ log' = LogOps(log, r, done)
     /\ meas' = [meas EXCEPT ![r] = done]
     /\ thrown' = [thrown EXCEPT ![r] =
                     [by |-> "telemetry-finish", message |-> FinishOps(r)[i].call]]
     /\ pc' = [pc EXCEPT ![r] = "finished"]
     /\ crashed' = TRUE
     /\ quiet' = FALSE
     /\ UNCHANGED << nreq, req, closure, startTime, statusCode, resBody,
                     destroyed, now, cpu, lastRender >>

\* What becomes of a rejected promise of an async route handler depends on
\* the framework and runtime the image is built with: the rejection is left
\* unhandled and ends the process ("crash"), it is left unhandled and only
\* warned about ("hang"), or the framework forwards it to its error handler
\* ("500").
RejectionOutcomes == {"crash", "hang", "500"}

\* register.metrics() rejects in the /metrics handler, which has no catch.
RenderFail(r, outcome) ==
  /\ ~crashed
  /\ pc[r] = "awaitRender"
  /\ thrown' = [thrown EXCEPT ![r] = [by |-> "render", message |-> outcome]]
  /\ IF outcome = "500"
       THEN /\ statusCode' = [statusCode EXCEPT ![r] = 500]
            /\ resBody' = [resBody EXCEPT ![r] = << "Internal Server Error" >>]
            /\ pc' = [pc EXCEPT ![r] = AfterEnd(r)]
       ELSE /\ pc' = [pc EXCEPT ![r] = "hung"]
            /\ UNCHANGED << statusCode, resBody >>
  /\ crashed' = (outcome = "crash")
  /\ quiet' = FALSE
  /\ UNCHANGED << nreq, req, closure, startTime, destroyed, meas, register, log,
                  now, cpu, lastRender >>

\* Task.find() / task.save() resolved, the success increment was made, and
\* then logger.info (at = "log") or res.json (at = "json") throws inside the
\* try block: the handler's catch block runs as it does for a store failure.
AfterSuccessThrows(r, at) ==
  LET op == Operation(r)
      succeeded == MongoInc(register, op, "success")
      logged == IF at = "json"
                  THEN LogInfo(log, [ message |-> << "MongoDB", op, "operation completed" >>,
                                      operation |-> op,
                                      duration |-> now - startTime[r] ])
                  ELSE log
  IN /\ ~crashed
     /\ pc[r] = "awaitStore"
     /\ register' = MongoInc(succeeded, op, "error")
     /\ log' = LogError(logged, [ message |-> << "Error", op >>,
                                  operation |-> op,
                                  error |-> at,
                                  duration |-> now - startTime[r] ])
     /\ thrown' = [thrown EXCEPT ![r] = [by |-> "after-success", message |-> at]]
     /\ statusCode' = [statusCode EXCEPT ![r] = 500]
     /\ resBody' = [resBody EXCEPT ![r] = << "error", "Failed", op >>]
     /\ pc' = [pc EXCEPT ![r] = AfterEnd(r)]
     /\ quiet' = FALSE
     /\ UNCHANGED << nreq, req, closure, startTime, destroyed, meas, now, cpu,
                     crashed, lastRender >>

NextFault ==
  \/ Next
  \/ \E k \in ReqKinds, at \in {"inc", "memory"} : StartThrows(k, at)
  \/ \E r \in Reqs, i \in 1..5 : FinishThrows(r, i)
  \/ \E r \in Reqs, outcome \in RejectionOutcomes : RenderFail(r, outcome)
  \/ \E r \in Reqs, at \in {"log", "json"} : AfterSuccessThrows(r, at)

SpecFault == Init /\ [][NextFault]_vars

TypeOK ==
  /\ nreq \in 0..MaxReq
  /\ \A r \in Reqs : pc[r] \in {"idle", "parseBody", "awaitStore", "awaitRender",
                                "ended", "finished", "dropped", "unheard",
                                "hung"}
  /\ crashed \in BOOLEAN


\* ------------------------------------------------------------ properties
\* The instrument calls named c that r's 'finish' listener has made.
CallsOf(r, c) == { i \in DOMAIN meas[r] : meas[r][i].call = c }

\* The value of a labelled counter series, 0 while it does not exist.
SeriesValue(series, key) == IF key \in DOMAIN series THEN series[key] ELSE 0

\* Requests between their start phase and their completion phase.
InFlight == { r \in Reqs : pc[r] \notin {"idle", "finished"} }

\* C1: every request the middleware handled, once its handling is over, has
\* made exactly one http_requests_total increment and exactly one
\* http_request_duration_seconds observation, both with the same labels.
C1_OneIncOneObserve ==
  \A r \in Reqs :
    pc[r] \in {"finished", "dropped"} =>
      /\ Cardinality(CallsOf(r, "inc")) = 1
      /\ Cardinality(CallsOf(r, "observe")) = 1
      /\ \A i \in CallsOf(r, "inc"), j \in CallsOf(r, "observe") :
           meas[r][i].labels = meas[r][j].labels

\* C2: the completion phase has run, whole, for every request whose start
\* phase ran and whose handling is over: no measurement stays without its
\* completion and none is half-recorded.
C2_CompletionFires ==
  \A r \in Reqs :
    pc[r] \in {"finished", "dropped"} =>
      /\ meas[r] # << >>
      /\ meas[r][Len(meas[r])].call = "log"

\* C3: nodejs_active_connections equals the number of requests that have
\* started and not completed; it is back at its initial value 0 whenever
\* every started request has completed.
C3_ActiveConnections ==
  /\ register.activeConnectionsGauge = Cardinality(InFlight)
  /\ (\A r \in Reqs : pc[r] \in {"idle", "finished"})
       => register.activeConnectionsGauge = 0

\* C3 witness: request 2 started and completed while request 1 was waiting
\* for the store.
C3_Witness ==
  /\ pc[1] = "awaitStore"
  /\ pc[2] = "finished"
  /\ register.activeConnectionsGauge = 1

\* C4: when a telemetry call throws in the start or the completion phase of
\* request r, the process keeps running, the response completes, and its
\* status is the one the route handler chose (200 for / and /health).
C4_TelemetryFailureDropped ==
  \A r \in Reqs :
    thrown[r].by \in {"telemetry-start", "telemetry-finish"} =>
      /\ ~crashed
      /\ Route(req[r]) \in {"root", "health"} => statusCode[r] = 200

\* C5: every series of the request counter and of the duration histogram
\* carries status 'success' with a code below 400 and 'error' with a code of
\* 400 or above, and the code is the one the response ended with.
C5_OutcomeLabel ==
  /\ \A k \in DOMAIN register.httpRequestCounter
            \cup DOMAIN register.httpRequestDurationMicroseconds :
       /\ k[3] < 400 => k[4] = "success"
       /\ k[3] >= 400 => k[4] = "error"
  /\ \A r \in Reqs : \A i \in CallsOf(r, "inc") \cup CallsOf(r, "observe") :
       meas[r][i].labels[3] = statusCode[r]

\* C5 witness: a 201 recorded as success and a 400 recorded as error.
C5_Witness ==
  /\ << "POST", "/api/tasks", 201, "success" >> \in DOMAIN register.httpRequestCounter
  /\ << "POST", "/api/tasks", 400, "error" >> \in DOMAIN register.httpRequestCounter

\* The requests whose store operation op failed.
StoreFailed(op) == { r \in Reqs : thrown[r].by = "store" /\ Operation(r) = op }

RECURSIVE CopiesOf(_, _)
CopiesOf(recs, l) ==
  IF recs = {} THEN 0
  ELSE LET rec == CHOOSE x \in recs : TRUE
       IN CopiesIn(rec, l) + CopiesOf(recs \ {rec}, l)

\* The number of error-severity records logged for op with message msg.
ErrorsLogged(op, msg) ==
  CopiesOf({ rec \in BagToSet(log) :
               /\ rec.severity = "error"
               /\ rec.operation = op
               /\ rec.error = msg }, log)

\* C6: each failure of a store operation while handling GET or POST
\* /api/tasks sets the response status to 500, adds exactly 1 to
\* mongodb_operations_total{operation, status="error"} and writes one
\* error-severity record carrying the failure's message.
C6_StoreFailure ==
  \A op \in {"find", "insert"} :
    /\ SeriesValue(register.mongoDbOperationsCounter, << op, "error" >>)
         = Cardinality(StoreFailed(op))
    /\ \A msg \in FailMsgs :
         ErrorsLogged(op, msg)
           = Cardinality({ r \in StoreFailed(op) : thrown[r].message = msg })
    /\ \A r \in StoreFailed(op) : statusCode[r] = 500

\* C6 witness: an insert and a find have both failed and been answered.
C6_Witness ==
  /\ thrown[1].by = "store" /\ Operation(1) = "insert" /\ pc[1] = "finished"
  /\ thrown[2].by = "store" /\ Operation(2) = "find" /\ pc[2] = "finished"


\* A step in which the /metrics handler ends its response with the render.
RenderStep ==
  \E r \in Reqs : /\ pc[r] = "awaitRender"
                  /\ pc'[r] \in {"ended", "dropped"}
                  /\ thrown'[r].by = "none"

\* The registry without the default process metrics.
Custom(reg) == [reg EXCEPT !.defaultMetrics = 0]

\* The lines of a render that belong to the instruments server.js defines.
CustomLines(text) == { l \in text : l[1] # "process_cpu_seconds_total" }

LabelsIn(text, name) == { l[2] : l \in { x \in text : x[1] = name } }

\* A render in which every series is whole: each http series has its four
\* labels with a status that fits the code, the counter and the histogram
\* show the same series with the same counts (both are written by one
\* completion phase), every histogram series has its sum, and the four
\* memory gauges of a start phase appear together.
SnapshotWhole(text) ==
  /\ \A l \in text :
       /\ l[1] = "http_requests_total" =>
            /\ Len(l[2]) = 4
            /\ l[2][4] = (IF l[2][3] < 400 THEN "success" ELSE "error")
            /\ << "http_request_duration_seconds_count", l[2], l[3] >> \in text
       /\ l[1] = "http_request_duration_seconds_count" =>
            /\ << "http_requests_total", l[2], l[3] >> \in text
            /\ l[2] \in LabelsIn(text, "http_request_duration_seconds_sum")
  /\ LabelsIn(text, "nodejs_memory_usage_bytes")
       \in { {}, { << "rss" >>, << "heapTotal" >>, << "heapUsed" >>, << "external" >> } }

\* The /metrics requests whose handler has ended the response with a render.
Rendered ==
  { r \in Reqs : /\ Route(req[r]) = "metrics"
                 /\ thrown[r].by = "none"
                 /\ pc[r] \in {"ended", "finished", "dropped"} }

\* C8: whatever other start and completion phases ran around it, the body
\* of every /metrics response shows whole series only.
C8_ConsistentSnapshot == \A r \in Rendered : SnapshotWhole(resBody[r])

\* C8 witness: request 2 completed between the start phase and the render of
\* the /metrics request 1, whose body shows the series request 2 wrote.
C8_Witness ==
  /\ 1 \in Rendered
  /\ pc[2] = "finished"
  /\ \E l \in resBody[1] : l[1] = "http_requests_total" /\ l[3] = 1

\* C9: a /metrics request that got past its start phase is answered 200 with
\* the render, or, when the render failed, 500; it never hangs and never
\* takes the process down.
C9_MetricsAnswers ==
  \A r \in Reqs :
    (Route(req[r]) = "metrics" /\ pc[r] \notin {"idle", "awaitRender", "unheard"}) =>
      /\ pc[r] # "hung"
      /\ thrown[r].by = "render" => (~crashed /\ statusCode[r] = 500)
      /\ thrown[r].by # "render" =>
           /\ statusCode[r] = 200
           /\ { "nodejs_active_connections", "nodejs_cpu_usage_seconds_total" }
                \subseteq { l[1] : l \in resBody[r] }


\* C10: what a request's completion phase records is computed from the
\* start timestamp, CPU snapshot, method and route captured in that request's
\* own start phase; no turn of another request changes what was captured.
C10_RequestLocal ==
  [][ \A r \in Reqs :
        /\ (pc[r] = "idle" /\ pc'[r] # "idle") =>
             /\ closure'[r].start = now
             /\ closure'[r].startCpuUsage = cpu
             /\ closure'[r].path = RouteLabel(req'[r].path)
        /\ pc[r] # "idle" => (closure'[r] = closure[r] /\ req'[r] = req[r])
        /\ (pc[r] = "ended" /\ pc'[r] = "finished") =>
             /\ meas'[r][1].value = now - closure[r].start
             /\ meas'[r][3].value = cpu - closure[r].startCpuUsage
             /\ SubSeq(meas'[r][1].labels, 1, 2)
                  = << req[r].method, closure[r].path >> ]_vars

\* C10 witness: request 2 started one tick after request 1 and before
\* request 1 completed; request 1's recorded duration is the full tick.
C10_Witness ==
  /\ pc[1] = "finished" /\ pc[2] \notin {"idle", "finished"}
  /\ closure[1].start = 0 /\ closure[2].start = 1
  /\ closure[1].startCpuUsage = 0 /\ closure[2].startCpuUsage = 1
  /\ meas[1][1].value = 1
  /\ meas[1][3].value = 1


\* C11: no series of the request counter or of the duration histogram has
\* the route label '/'; a request for '/' is recorded under 'root' and a
\* request for any other path under that path as received.
C11_RootLabel ==
  /\ \A k \in DOMAIN register.httpRequestCounter
            \cup DOMAIN register.httpRequestDurationMicroseconds : k[2] # "/"
  /\ \A r \in Reqs : \A i \in CallsOf(r, "inc") \cup CallsOf(r, "observe") :
       /\ req[r].path = "/" => meas[r][i].labels[2] = "root"
       /\ req[r].path # "/" => meas[r][i].labels[2] = req[r].path

\* C11 witness: a request for '/' and a request for '/health' have both
\* been recorded.
C11_Witness ==
  /\ << "GET", "root", 200, "success" >> \in DOMAIN register.httpRequestCounter
  /\ << "GET", "/health", 200, "success" >> \in DOMAIN register.httpRequestCounter
  /\ \E r \in Reqs : req[r].path = "/" /\ pc[r] = "finished"


\* The turn in which request r arrives and the middleware's start phase runs.
StartStep(r) == pc[r] = "idle" /\ pc'[r] # "idle"

\* The turn in which the middleware's completion phase runs for request r.
FinishStep(r) == pc[r] = "ended" /\ pc'[r] = "finished"

\* Where the handling of a request stands once the route it was passed to
\* has run its synchronous part.
AfterDispatch(k) ==
  CASE Route(k) = "metrics" -> "awaitRender"
    [] Route(k) = "find"    -> "awaitStore"
    [] Route(k) = "insert"  -> "parseBody"
    [] OTHER -> "ended"

\* C12: the middleware acts on a request in its start turn and in its
\* completion turn only.  The start turn hands the request on to its route
\* in that same turn and once (a find is counted pending once), with the
\* status and body the route gave and nothing else; the completion turn
\* leaves status and body alone; a measurement is written by the completion
\* turn only, once, and the request takes no turn after it.
C12_StartAndCompletionOnly ==
  [][ \A r \in Reqs :
        /\ StartStep(r) =>
             /\ pc'[r] = AfterDispatch(req'[r])
             /\ statusCode'[r] = (IF Route(req'[r]) = "none" THEN 404 ELSE 200)
             /\ pc'[r] # "ended" => resBody'[r] = << >>
             /\ SeriesValue(register'.mongoDbOperationsCounter, << "find", "pending" >>)
                  = SeriesValue(register.mongoDbOperationsCounter, << "find", "pending" >>)
                    + (IF Route(req'[r]) = "find" THEN 1 ELSE 0)
             /\ meas'[r] = << >>
        /\ FinishStep(r) =>
             /\ statusCode' = statusCode
             /\ resBody' = resBody
             /\ \A q \in Reqs \ {r} : pc'[q] = pc[q]
        /\ meas'[r] # meas[r] => (FinishStep(r) /\ meas[r] = << >>)
        /\ pc[r] = "finished" => pc'[r] = "finished" ]_vars

\* C12 witness: a request answered 404 by the framework has completed with
\* that status and body, beside a request still waiting for the store.
C12_Witness ==
  /\ Route(req[1]) = "find" /\ pc[1] = "awaitStore"
  /\ Route(req[2]) = "none" /\ pc[2] = "finished"
  /\ statusCode[2] = 404 /\ resBody[2] # << >>
  /\ meas[2] # << >>


\* The requests whose handler is waiting for store operation op.
Waiting(op) == { r \in Reqs : pc[r] = "awaitStore" /\ Operation(r) = op }

\* C13: for find and for insert, the pending count is never below the sum
\* of the success and error counts, and equals it whenever no handler is
\* waiting for the store: each handled request is counted pending once and
\* then as exactly one of success and error.
C13_MongoAccounting ==
  \A op \in {"find", "insert"} :
    LET pending == SeriesValue(register.mongoDbOperationsCounter, << op, "pending" >>)
        success == SeriesValue(register.mongoDbOperationsCounter, << op, "success" >>)
        error   == SeriesValue(register.mongoDbOperationsCounter, << op, "error" >>)
    IN /\ pending >= success + error
       /\ Waiting(op) = {} => pending = success + error

====
